---------------------------- MODULE Spec2Model ----------------------------
(***************************************************************************)
(* Model of the crop-zone interaction engine (class Cropper) of            *)
(* tui.image-editor: session lifecycle (start/end), the pointer gesture    *)
(* handlers, the geometry computations and the rectangle accessors; and of  *)
(* the numeric input widget (class InputField) that the crop menu uses for *)
(* typed widths and heights.                                               *)
(*                                                                         *)
(* Geometry is kept in fixed point: one pixel is Unit model units, so that *)
(* the two-decimal rounding of fixFloatingPoint and the halving done by    *)
(* the centering computations are exact integers.                          *)
(*                                                                         *)
(* The rendering surface (fabric.Canvas) is modelled by what the calls     *)
(* made by Cropper do to it:                                               *)
(*   - canvas.on(name, f) appends f to the listener list of name without   *)
(*     looking for duplicates; canvas.off(name, f) drops one occurrence;   *)
(*     firing an event calls every occurrence registered when it fires;    *)
(*   - canvas.add(o) appends o to the object list, canvas.remove(o) drops  *)
(*     its first occurrence and deselects o if it was the active object;   *)
(*   - document.addEventListener ignores a listener already registered.    *)
(***************************************************************************)
EXTENDS Integers, Sequences, FiniteSets

VARIABLES
  canvasWidth,    \* canvas.getWidth(), in pixels
  canvasHeight,   \* canvas.getHeight(), in pixels
  defaultCrop,    \* graphics.defaultOptions.crop: NULL or [width, height]
  cropzone,       \* this._cropzone: NULL or the zone's properties
  startX,         \* this._startX (0 stands for the initial null)
  startY,         \* this._startY
  withShiftKey,   \* this._withShiftKey
  zoneOnCanvas,   \* occurrences of the zone in the canvas object list
  evented,        \* obj.evented of the other canvas objects
  canvasOn,       \* canvas listeners: event name -> registrations
  docOn,          \* document listeners registered by the engine
  selection,      \* canvas.selection (multi-select)
  defaultCursor,  \* canvas.defaultCursor
  activeObject,   \* canvas active object: NULL or ZONE
  lastOp,         \* history: the operation or event that ran last
  repeated,       \* history: lastOp is a start() right after a start(), or end() after end()
  arg,            \* history: the argument of lastOp (point, ratio or posInfo), or NULL
  applied,        \* history: settings given to cropzone.set() by lastOp
  uiCalls,        \* history: arguments of updateUI calls made by lastOp
  ret,            \* history: value returned by lastOp
  threw,          \* history: lastOp ended with a TypeError
  inputField      \* the numeric input widget: NULL or its fields

vars == <<canvasWidth, canvasHeight, defaultCrop, cropzone, startX, startY,
          withShiftKey, zoneOnCanvas, evented, canvasOn, docOn, selection,
          defaultCursor, activeObject, lastOp, repeated, arg, applied,
          uiCalls, ret, threw, inputField>>

----------------------------------------------------------------------------
(* Bounds of the model *)

\* most registrations of the move/up listeners (pointer-downs without a pointer-up)
MaxListeners == 2
\* in-canvas pointer coordinates of the geometry checks: multiples k/GridN of the side
GridN == 3
\* number of other objects on the canvas
NumObjects == 1

(* Program constants *)

MOUSE_MOVE_THRESHOLD == 10
\* model units per pixel: hundredths of a pixel, halved once by centering
Unit == 2 * 10 * 10

NULL == [null |-> TRUE]
ZONE == [object |-> "cropzone"]
NoReturn == [returned |-> FALSE]

Objects == 1..NumObjects
EventNames == {"mouse:down", "mouse:move", "mouse:up"}
SHIFT == "shift"
Keys == {SHIFT, "other"}

Abs(n) == IF n < 0 THEN -n ELSE n
Min(a, b) == IF a < b THEN a ELSE b
Max(a, b) == IF a > b THEN a ELSE b

----------------------------------------------------------------------------
(* The program state as one value, so that handlers are functions on it *)

State ==
  [canvasWidth |-> canvasWidth, canvasHeight |-> canvasHeight,
   defaultCrop |-> defaultCrop, cropzone |-> cropzone,
   startX |-> startX, startY |-> startY, withShiftKey |-> withShiftKey,
   zoneOnCanvas |-> zoneOnCanvas, evented |-> evented, canvasOn |-> canvasOn,
   docOn |-> docOn, selection |-> selection, defaultCursor |-> defaultCursor,
   activeObject |-> activeObject,
   applied |-> <<>>, uiCalls |-> <<>>, ret |-> NoReturn, threw |-> FALSE]

Becomes(s) ==
  /\ canvasWidth' = s.canvasWidth
  /\ canvasHeight' = s.canvasHeight
  /\ defaultCrop' = s.defaultCrop
  /\ cropzone' = s.cropzone
  /\ startX' = s.startX
  /\ startY' = s.startY
  /\ withShiftKey' = s.withShiftKey
  /\ zoneOnCanvas' = s.zoneOnCanvas
  /\ evented' = s.evented
  /\ canvasOn' = s.canvasOn
  /\ docOn' = s.docOn
  /\ selection' = s.selection
  /\ defaultCursor' = s.defaultCursor
  /\ activeObject' = s.activeObject
  /\ applied' = s.applied
  /\ uiCalls' = s.uiCalls
  /\ ret' = s.ret
  /\ threw' = s.threw
  /\ UNCHANGED inputField

----------------------------------------------------------------------------
(* Rendering-surface primitives, as used by Cropper *)

\* canvas.on(name, listener): one more registration, duplicates kept
CanvasOnAdd(s, name) == [s EXCEPT !.canvasOn[name] = @ + 1]

\* canvas.off(name, listener): one registration less, if there is one
CanvasOff(s, name) == [s EXCEPT !.canvasOn[name] = IF @ > 0 THEN @ - 1 ELSE 0]

\* canvas.add(this._cropzone)
CanvasAdd(s) == [s EXCEPT !.zoneOnCanvas = @ + 1]

\* canvas.remove(this._cropzone): nothing for null or an absent object;
\* removing the active object deselects it
CanvasRemove(s) ==
  IF s.cropzone = NULL \/ s.zoneOnCanvas = 0 THEN s
  ELSE [s EXCEPT !.zoneOnCanvas = @ - 1,
                 !.activeObject = IF @ = ZONE THEN NULL ELSE @]

\* canvas.discardActiveObject()
DiscardActiveObject(s) == [s EXCEPT !.activeObject = NULL]

\* canvas.setActiveObject(this._cropzone): with null it returns at once when
\* nothing is active and otherwise dereferences null
SetActiveObject(s) ==
  IF s.cropzone # NULL THEN [s EXCEPT !.activeObject = ZONE]
  ELSE IF s.activeObject = NULL THEN s
  ELSE [s EXCEPT !.threw = TRUE]

\* cropzone.set(settings): the listed properties are overwritten, the others kept
ZoneSet(zone, settings) ==
  [k \in DOMAIN zone |-> IF k \in DOMAIN settings THEN settings[k] ELSE zone[k]]

\* this._runAction('updateUI', settings), with the callback supplied
RunActionUpdateUI(s, settings) == [s EXCEPT !.uiCalls = Append(@, settings)]

\* the statement "cropzone.set(settings)" alone
SetOnly(s, settings) ==
  [s EXCEPT !.cropzone = ZoneSet(@, settings), !.applied = Append(@, settings)]

\* the zone is set and the callback is forgotten
SetWithoutNotify(s, settings) == SetOnly(s, settings)

\* the statements "cropzone.set(settings); this._runAction('updateUI', settings)"
SetAndNotify(s, settings) == RunActionUpdateUI(SetOnly(s, settings), settings)

----------------------------------------------------------------------------
(* Geometry *)

\* util.clamp
clamp(value, minValue, maxValue) == Max(minValue, Min(value, maxValue))

Rect(left, top, width, height) ==
  [left |-> left, top |-> top, width |-> width, height |-> height]

\* the aspect-lock branch with its "else if (height > width)" arm missing
ShiftSquareHeightOnly(r, sx, sy, x, y) ==
  LET width  == r.width
      height == IF r.width > r.height THEN r.width ELSE r.height
  IN  Rect(IF sx >= x THEN sx - width ELSE r.left,
           IF sy >= y THEN sy - height ELSE r.top,
           width, height)

\* the aspect-lock branch without the two statements that move left and top
ShiftSquareUnanchored(r, sx, sy, x, y) ==
  LET width  == IF r.height > r.width THEN r.height ELSE r.width
      height == IF r.width > r.height THEN r.width ELSE r.height
  IN  Rect(r.left, r.top, width, height)

\* the aspect-lock branch of _calcRectDimensionFromPoint
ShiftSquare(r, sx, sy, x, y) ==
  LET width  == IF r.height > r.width THEN r.height ELSE r.width
      height == IF r.width > r.height THEN r.width ELSE r.height
  IN  Rect(IF sx >= x THEN sx - width ELSE r.left,
           IF sy >= y THEN sy - height ELSE r.top,
           width, height)

\* _calcRectDimensionFromPoint(x, y) with the far edge taken at the pointer
CalcRectFarEdgeAtPointer(s, x, y) ==
  LET left   == clamp(x, 0, s.startX)
      top    == clamp(y, 0, s.startY)
      width  == Max(x, s.startX) - left
      height == Max(y, s.startY) - top
      free   == Rect(left, top, width, height)
  IN  IF s.withShiftKey THEN ShiftSquare(free, s.startX, s.startY, x, y)
      ELSE free

\* _calcRectDimensionFromPoint(x, y), all values in model units
CalcRectDimensionFromPoint(s, x, y) ==
  LET cw     == s.canvasWidth * Unit
      ch     == s.canvasHeight * Unit
      left   == clamp(x, 0, s.startX)
      top    == clamp(y, 0, s.startY)
      width  == clamp(x, s.startX, cw) - left
      height == clamp(y, s.startY, ch) - top
      free   == Rect(left, top, width, height)
  IN  IF s.withShiftKey THEN ShiftSquare(free, s.startX, s.startY, x, y)
      ELSE free

\* _getDefaultCropSize() falling back only when both sides exceed the canvas
GetDefaultCropSizeBothExceed(s) ==
  LET maxWidth  == s.canvasWidth
      maxHeight == s.canvasHeight
      defaults  == IF s.defaultCrop = NULL
                   THEN [width |-> maxWidth, height |-> maxHeight]
                   ELSE s.defaultCrop
      exceeds   == defaults.width > maxWidth /\ defaults.height > maxHeight
      width     == IF exceeds THEN (maxWidth * 3) \div 4 ELSE defaults.width
      height    == IF exceeds THEN (maxHeight * 3) \div 4 ELSE defaults.height
  IN  [presetRatio |-> NULL,
       left   |-> ((maxWidth - width) * Unit) \div 2,
       top    |-> ((maxHeight - height) * Unit) \div 2,
       width  |-> width * Unit,
       height |-> height * Unit]

\* _getDefaultCropSize(): ~~(n * 0.75) truncates, n >= 0
GetDefaultCropSize(s) ==
  LET maxWidth  == s.canvasWidth
      maxHeight == s.canvasHeight
      defaults  == IF s.defaultCrop = NULL
                   THEN [width |-> maxWidth, height |-> maxHeight]
                   ELSE s.defaultCrop
      exceeds   == defaults.width > maxWidth \/ defaults.height > maxHeight
      width     == IF exceeds THEN (maxWidth * 3) \div 4 ELSE defaults.width
      height    == IF exceeds THEN (maxHeight * 3) \div 4 ELSE defaults.height
  IN  [presetRatio |-> NULL,
       left   |-> ((maxWidth - width) * Unit) \div 2,
       top    |-> ((maxHeight - height) * Unit) \div 2,
       width  |-> width * Unit,
       height |-> height * Unit]

(* Exact rationals n/d, d > 0, kept in lowest terms *)
RECURSIVE GCD(_, _)
GCD(a, b) == IF b = 0 THEN a ELSE GCD(b, a % b)

Rat(n, d) == LET g == GCD(n, d) IN [n |-> n \div g, d |-> d \div g]
RMul(a, b) == Rat(a.n * b.n, a.d * b.d)
RDiv(a, b) == Rat(a.n * b.d, a.d * b.n)
RGt(a, b) == a.n * b.d > b.n * a.d

\* util.fixFloatingPoint: Number(value.toFixed(FLOATING_POINT_DIGIT)), the
\* nearest hundredth (halves up), given here in model units
fixFloatingPoint(r) ==
  (Unit \div 100) * ((2 * 100 * r.n + r.d) \div (2 * r.d))

\* a getScale that never scales down
getScaleNever(value, originalValue) == Rat(1, 1)

\* getScale of _getPresetPropertiesForCropSize
getScale(value, originalValue) ==
  IF RGt(value, originalValue) THEN RDiv(originalValue, value) ELSE Rat(1, 1)

\* a scaling pass that forgets the width
ScaleHeightOnly(width, height, scale) == <<width, RMul(height, scale)>>

\* [width, height].map((sizeValue) => sizeValue * scale)
ScaleBoth(width, height, scale) == <<RMul(width, scale), RMul(height, scale)>>

\* _getPresetPropertiesForCropSize(presetRatio), presetRatio = [n, d]
GetPresetPropertiesForCropSize(s, presetRatio) ==
  LET originalWidth  == Rat(s.canvasWidth, 1)
      originalHeight == Rat(s.canvasHeight, 1)
      standardSize   == IF s.canvasWidth >= s.canvasHeight
                        THEN originalWidth ELSE originalHeight
      width0      == RMul(standardSize, Rat(presetRatio.n, presetRatio.d))
      height0     == standardSize
      scaleWidth  == getScale(width0, originalWidth)
      pass1       == ScaleBoth(width0, height0, scaleWidth)
      scaleHeight == getScale(pass1[2], originalHeight)
      pass2       == ScaleBoth(pass1[1], pass1[2], scaleHeight)
      width       == fixFloatingPoint(pass2[1])
      height      == fixFloatingPoint(pass2[2])
  IN  [presetRatio |-> presetRatio,
       top    |-> (s.canvasHeight * Unit - height) \div 2,
       left   |-> (s.canvasWidth * Unit - width) \div 2,
       width  |-> width,
       height |-> height]

\* _getPresetProperties(posInfo): posInfo is NULL or [left, top, width, height]
\* in pixels; presetRatio is the quotient width / height, kept as the pair
GetPresetProperties(s, posInfo) ==
  LET originalWidth  == s.canvasWidth
      originalHeight == s.canvasHeight
      p == IF posInfo = NULL
           THEN Rect(0, 0, originalWidth, originalHeight) ELSE posInfo
  IN  [presetRatio |-> [n |-> p.width, d |-> p.height],
       top    |-> Max(p.top, 0) * Unit,
       left   |-> Max(p.left, 0) * Unit,
       width  |-> Min(p.width, originalWidth - p.left) * Unit,
       height |-> Min(p.height, originalHeight - p.left) * Unit]

----------------------------------------------------------------------------
(* Operations and handlers, as functions on the program state *)

\* the zone built by "new Cropzone(canvas, extend(..., this._getDefaultCropSize()))"
NewCropzone(s) ==
  LET d == GetDefaultCropSize(s)
  IN  [left |-> d.left, top |-> d.top, width |-> d.width, height |-> d.height,
       presetRatio |-> d.presetRatio, visible |-> TRUE]

\* the body of start() after its guard
StartSession(s) ==
  LET s1 == [s EXCEPT !.evented = [o \in Objects |-> FALSE],
                      !.cropzone = NewCropzone(s)]
      s2 == CanvasAdd(DiscardActiveObject(s1))
      s3 == [CanvasOnAdd(s2, "mouse:down") EXCEPT
               !.selection = FALSE,
               !.defaultCursor = "crosshair",
               !.docOn = @ \cup {"keydown", "keyup"}]
  IN  SetActiveObject(s3)

\* start() without its "already started" guard
StartWithoutGuard(s) == StartSession(s)

\* start()
StartF(s) == IF s.cropzone # NULL THEN s ELSE StartSession(s)

\* the body of end() without the loop that restores obj.evented
EndSessionKeepsEvented(s) ==
  LET s1 == [CanvasRemove(s) EXCEPT !.selection = TRUE,
                                    !.defaultCursor = "default"]
  IN  [CanvasOff(s1, "mouse:down") EXCEPT
         !.cropzone = NULL,
         !.docOn = @ \ {"keydown", "keyup"}]

\* the body of end() after its guard
EndSession(s) ==
  LET s1 == [CanvasRemove(s) EXCEPT !.selection = TRUE,
                                    !.defaultCursor = "default"]
      s2 == [CanvasOff(s1, "mouse:down") EXCEPT
               !.evented = [o \in Objects |-> TRUE],
               !.cropzone = NULL,
               !.docOn = @ \ {"keydown", "keyup"}]
  IN  s2

\* end()
EndF(s) == IF s.cropzone = NULL THEN s ELSE EndSession(s)

\* changeVisibility(visible) without the test for a zone
ChangeVisibilityUnguarded(s, visible) ==
  IF s.cropzone # NULL THEN [s EXCEPT !.cropzone.visible = visible]
  ELSE [s EXCEPT !.threw = TRUE]

\* changeVisibility(visible)
ChangeVisibilityF(s, visible) ==
  IF s.cropzone # NULL THEN [s EXCEPT !.cropzone.visible = visible] ELSE s

\* _onFabricMouseDown(fEvent): target is fEvent.target, (x, y) the canvas pointer
OnFabricMouseDown(s, target, x, y) ==
  IF target # NULL THEN s
  ELSE CanvasOnAdd(
         CanvasOnAdd([s EXCEPT !.selection = FALSE, !.startX = x, !.startY = y],
                     "mouse:move"),
         "mouse:up")

\* the condition of _onFabricMouseMove with >= in place of >
AtOrAboveThreshold(s, x, y) ==
  Abs(x - s.startX) + Abs(y - s.startY) >= MOUSE_MOVE_THRESHOLD * Unit

\* the condition of _onFabricMouseMove
AboveThreshold(s, x, y) ==
  Abs(x - s.startX) + Abs(y - s.startY) > MOUSE_MOVE_THRESHOLD * Unit

\* _onFabricMouseMove(fEvent) without the canvas.remove(cropzone) statement
OnFabricMouseMoveNoRemove(s, x, y) ==
  IF ~AboveThreshold(s, x, y) THEN s
  ELSE IF s.cropzone = NULL THEN [s EXCEPT !.threw = TRUE]
  ELSE SetActiveObject(CanvasAdd(SetAndNotify(s, CalcRectDimensionFromPoint(s, x, y))))

\* _onFabricMouseMove(fEvent): cropzone.set on a null zone is a TypeError
OnFabricMouseMove(s, x, y) ==
  IF ~AboveThreshold(s, x, y) THEN s
  ELSE LET s1 == CanvasRemove(s)
           settings == CalcRectDimensionFromPoint(s, x, y)
       IN  IF s.cropzone = NULL THEN [s1 EXCEPT !.threw = TRUE]
           ELSE SetActiveObject(CanvasAdd(SetAndNotify(s1, settings)))

\* _onFabricMouseUp() removing the move listener only
OnFabricMouseUpKeepsUp(s) ==
  LET s1 == SetActiveObject(s)
  IN  IF s1.threw THEN s1
      ELSE CanvasOff(s1, "mouse:move")

\* _onFabricMouseUp()
OnFabricMouseUp(s) ==
  LET s1 == SetActiveObject(s)
  IN  IF s1.threw THEN s1
      ELSE CanvasOff(CanvasOff(s1, "mouse:move"), "mouse:up")

\* getCroppedImageData(cropRect) taking the image without removing the zone
GetCroppedImageDataZoneKept(s, cropRect) ==
  IF cropRect = NULL THEN [s EXCEPT !.ret = NULL]
  ELSE [s EXCEPT !.ret = [rect |-> cropRect, zoneInImage |-> s.zoneOnCanvas > 0]]

\* getCroppedImageData(cropRect): cropRect is NULL (falsy) or a rectangle;
\* the result stands for {imageName, url}, taken with the zone on the canvas or not
GetCroppedImageDataF(s, cropRect) ==
  LET containsCropzone == s.cropzone # NULL /\ s.zoneOnCanvas > 0
      s1 == IF containsCropzone THEN CanvasRemove(s) ELSE s
      imageData == [rect |-> cropRect, zoneInImage |-> s1.zoneOnCanvas > 0]
      s2 == IF containsCropzone THEN CanvasAdd(s1) ELSE s1
  IN  IF cropRect = NULL THEN [s EXCEPT !.ret = NULL]
      ELSE [s2 EXCEPT !.ret = imageData]

\* Cropzone.isValid()
IsValid(zone) == zone.width > 0 /\ zone.height > 0

\* getCropzoneRect(): cropzone.isValid() on a null zone is a TypeError
GetCropzoneRectF(s) ==
  IF s.cropzone = NULL THEN [s EXCEPT !.threw = TRUE]
  ELSE IF ~IsValid(s.cropzone) THEN [s EXCEPT !.ret = NULL]
  ELSE [s EXCEPT !.ret = Rect(s.cropzone.left, s.cropzone.top,
                              s.cropzone.width, s.cropzone.height)]

\* the statements shared by setCropzoneRect and setCropzonePosition before the
\* zone is set: discardActiveObject, selection = false, remove
BeforeSet(s) == CanvasRemove([DiscardActiveObject(s) EXCEPT !.selection = FALSE])

\* and after it: add, selection = true, setActiveObject
AfterSet(s) == SetActiveObject([CanvasAdd(s) EXCEPT !.selection = TRUE])

\* setCropzoneRect(presetRatio): presetRatio is NULL (omitted) or [n, d]
SetCropzoneRectF(s, presetRatio) ==
  LET s1 == BeforeSet(s)
      settings == IF presetRatio # NULL
                  THEN GetPresetPropertiesForCropSize(s, presetRatio)
                  ELSE GetDefaultCropSize(s)
  IN  IF s.cropzone = NULL THEN [s1 EXCEPT !.threw = TRUE]
      ELSE AfterSet(SetAndNotify(s1, settings))

\* setCropzonePosition(posInfo)
SetCropzonePositionF(s, posInfo) ==
  LET s1 == BeforeSet(s)
  IN  IF s.cropzone = NULL THEN [s1 EXCEPT !.threw = TRUE]
      ELSE AfterSet(SetOnly(s1, GetPresetProperties(s, posInfo)))

\* _onKeyDown(e)
OnKeyDown(s, key) == IF key = SHIFT THEN [s EXCEPT !.withShiftKey = TRUE] ELSE s

\* _onKeyUp(e)
OnKeyUp(s, key) == IF key = SHIFT THEN [s EXCEPT !.withShiftKey = FALSE] ELSE s

----------------------------------------------------------------------------
(* Event delivery: canvas.fire(name) calls each of the n registrations that   *)
(* exist when the event fires, in order, until one of them throws             *)

RECURSIVE FireMouseDown(_, _, _, _, _)
FireMouseDown(n, s, target, x, y) ==
  IF n = 0 \/ s.threw THEN s
  ELSE FireMouseDown(n - 1, OnFabricMouseDown(s, target, x, y), target, x, y)

RECURSIVE FireMouseMove(_, _, _, _)
FireMouseMove(n, s, x, y) ==
  IF n = 0 \/ s.threw THEN s
  ELSE FireMouseMove(n - 1, OnFabricMouseMove(s, x, y), x, y)

RECURSIVE FireMouseUp(_, _)
FireMouseUp(n, s) ==
  IF n = 0 \/ s.threw THEN s
  ELSE FireMouseUp(n - 1, OnFabricMouseUp(s))

\* what the canvas itself does with a pointer-down before it fires mouse:down:
\* the target becomes the active object, empty space clears the selection
CanvasPointerDown(s, target) == [s EXCEPT !.activeObject = target]

----------------------------------------------------------------------------
(* Inputs *)

\* distance of the pointer positions outside the canvas, and of the small moves
Outside == 2 * MOUSE_MOVE_THRESHOLD
Nudge == MOUSE_MOVE_THRESHOLD \div 2

Point(x, y) == [x |-> x * Unit, y |-> y * Unit]

\* canvas size and configured default crop size (pixels) of the session model
Configs == { [w |-> 40, h |-> 30, crop |-> NULL] }

\* pointer-down positions (pixels): the centre and a corner
Anchors ==
  { Point(canvasWidth \div 2, canvasHeight \div 2), Point(canvasWidth, 0) }

\* pointer-move positions: a corner, points outside the canvas, and two points
\* close to the anchor, one of them at exactly the threshold distance
MovePoints ==
  { Point(0, canvasHeight),
    Point(canvasWidth + Outside, canvasHeight \div 2),
    Point(-Outside, -Outside),
    [x |-> startX + Nudge * Unit, y |-> startY],
    [x |-> startX + Nudge * Unit, y |-> startY + Nudge * Unit] }

Ratios == { [n |-> 1, d |-> 1], [n |-> 16, d |-> 9], [n |-> 2, d |-> 3] }

PosInfos ==
  { NULL,
    Rect(-Nudge, 0, canvasWidth, canvasHeight),
    Rect(0, canvasHeight \div 2, canvasWidth \div 2, canvasHeight),
    Rect(canvasWidth \div 2, 0, canvasWidth, canvasHeight \div 2) }

CropRects == {NULL, Rect(0, 0, canvasWidth, canvasHeight)}

----------------------------------------------------------------------------
(* The state machine *)

\* the state after construction, on a canvas of configuration c
InitState(c) ==
  [canvasWidth |-> c.w, canvasHeight |-> c.h, defaultCrop |-> c.crop,
   cropzone |-> NULL, startX |-> 0, startY |-> 0, withShiftKey |-> FALSE,
   zoneOnCanvas |-> 0, evented |-> [o \in Objects |-> TRUE],
   canvasOn |-> [e \in EventNames |-> 0], docOn |-> {}, selection |-> TRUE,
   defaultCursor |-> "default", activeObject |-> NULL,
   applied |-> <<>>, uiCalls |-> <<>>, ret |-> NoReturn, threw |-> FALSE]

\* the program state is s
Is(s) ==
  /\ canvasWidth = s.canvasWidth
  /\ canvasHeight = s.canvasHeight
  /\ defaultCrop = s.defaultCrop
  /\ cropzone = s.cropzone
  /\ startX = s.startX
  /\ startY = s.startY
  /\ withShiftKey = s.withShiftKey
  /\ zoneOnCanvas = s.zoneOnCanvas
  /\ evented = s.evented
  /\ canvasOn = s.canvasOn
  /\ docOn = s.docOn
  /\ selection = s.selection
  /\ defaultCursor = s.defaultCursor
  /\ activeObject = s.activeObject
  /\ applied = s.applied
  /\ uiCalls = s.uiCalls
  /\ ret = s.ret
  /\ threw = s.threw

Init ==
  /\ \E c \in Configs : Is(InitState(c))
  /\ lastOp = "init"
  /\ repeated = FALSE
  /\ arg = NULL
  /\ inputField = NULL

\* one operation: the program state becomes s, the history records op
Do(op, s, pt) ==
  /\ Becomes(s)
  /\ lastOp' = op
  /\ repeated' = (lastOp = op /\ op \in {"start", "end"})
  /\ arg' = pt

Start == Do("start", StartF(State), NULL)

End == Do("end", EndF(State), NULL)

ChangeVisibility ==
  \E v \in BOOLEAN :
     Do("changeVisibility", ChangeVisibilityF(State, v), [visible |-> v])

\* a pointer-down on the canvas: on empty space (target NULL) or on the zone
PointerDown ==
  /\ canvasOn["mouse:down"] > 0
  /\ \E target \in {NULL} \cup (IF cropzone # NULL /\ zoneOnCanvas > 0 THEN {ZONE} ELSE {}) :
     \E p \in Anchors :
        /\ target = NULL => canvasOn["mouse:move"] < MaxListeners
        /\ Do("mousedown",
              FireMouseDown(canvasOn["mouse:down"], CanvasPointerDown(State, target),
                            target, p.x, p.y),
              [x |-> p.x, y |-> p.y, target |-> target])

PointerMove ==
  /\ canvasOn["mouse:move"] > 0
  /\ \E p \in MovePoints :
        Do("mousemove", FireMouseMove(canvasOn["mouse:move"], State, p.x, p.y), p)

PointerUp ==
  /\ canvasOn["mouse:up"] > 0
  /\ Do("mouseup", FireMouseUp(canvasOn["mouse:up"], State), NULL)

KeyDown ==
  /\ "keydown" \in docOn
  /\ \E k \in Keys : Do("keydown", OnKeyDown(State, k), NULL)

KeyUp ==
  /\ "keyup" \in docOn
  /\ \E k \in Keys : Do("keyup", OnKeyUp(State, k), NULL)

GetCroppedImageData ==
  \E r \in CropRects : Do("getCroppedImageData", GetCroppedImageDataF(State, r), r)

GetCropzoneRect == Do("getCropzoneRect", GetCropzoneRectF(State), NULL)

SetCropzoneRect ==
  \E r \in Ratios \cup {NULL} : Do("setCropzoneRect", SetCropzoneRectF(State, r), r)

SetCropzonePosition ==
  \E p \in PosInfos : Do("setCropzonePosition", SetCropzonePositionF(State, p), p)

Next ==
  \/ Start
  \/ End
  \/ ChangeVisibility
  \/ PointerDown
  \/ PointerMove
  \/ PointerUp
  \/ KeyDown
  \/ KeyUp
  \/ GetCroppedImageData
  \/ GetCropzoneRect
  \/ SetCropzoneRect
  \/ SetCropzonePosition

Spec == Init /\ [][Next]_vars

----------------------------------------------------------------------------
(* The geometry computations on their own: a session with a gesture begun at  *)
(* an anchor of a finer grid, the aspect lock on or off, in which the         *)
(* rectangle computations are applied to every point and ratio of the grids   *)

GeomConfigs ==
  { [w |-> 40,  h |-> 30,  crop |-> NULL],
    [w |-> 30,  h |-> 40,  crop |-> NULL],
    [w |-> 50,  h |-> 50,  crop |-> NULL],
    [w |-> 800, h |-> 600, crop |-> NULL] }

\* pointer coordinates (pixels) inside a canvas side of n pixels
Grid(n) == { (k * n) \div GridN : k \in 0..GridN }

\* and those of a pointer that may have left the canvas
WideGrid(n) == Grid(n) \cup {-Outside, n + Outside}

\* the drags of the documented examples, in pixels
ExampleAnchor == [x |-> 100, y |-> 100]
ExamplePointers == { [x |-> 300, y |-> 150], [x |-> 50, y |-> 50] }

\* the anchors of a canvas of configuration c
GeomAnchors(c) ==
  { [x |-> ax, y |-> ay] : ax \in Grid(c.w), ay \in Grid(c.h) }
    \cup { a \in {ExampleAnchor} : a.x <= c.w /\ a.y <= c.h }

\* the pointers of a move
GeomPointers ==
  { [x |-> px, y |-> py] : px \in WideGrid(canvasWidth), py \in WideGrid(canvasHeight) }
    \cup ExamplePointers

GeomRatios ==
  { [n |-> 1, d |-> 1], [n |-> 3, d |-> 2], [n |-> 4, d |-> 3], [n |-> 16, d |-> 9],
    [n |-> 2, d |-> 3], [n |-> 9, d |-> 16], [n |-> 1, d |-> 7], [n |-> 50, d |-> 1],
    [n |-> 1, d |-> 1000] }

\* start(), shift pressed or not, then a pointer-down on empty space at (ax, ay)
GestureBegun(c, shift, ax, ay) ==
  LET s1 == StartF(InitState(c))
      s2 == IF shift THEN OnKeyDown(s1, SHIFT) ELSE s1
      s3 == FireMouseDown(s2.canvasOn["mouse:down"], CanvasPointerDown(s2, NULL),
                          NULL, ax * Unit, ay * Unit)
  IN  s3

InitGeom ==
  /\ \E c \in GeomConfigs, shift \in BOOLEAN :
       \E a \in GeomAnchors(c) : Is(GestureBegun(c, shift, a.x, a.y))
  /\ lastOp = "mousedown"
  /\ repeated = FALSE
  /\ arg = NULL
  /\ inputField = NULL

\* the history records the result r of computation op at point pt
Computed(op, r, pt) ==
  /\ applied' = <<r>>
  /\ lastOp' = op
  /\ arg' = pt
  /\ UNCHANGED <<canvasWidth, canvasHeight, defaultCrop, cropzone, startX, startY,
                 withShiftKey, zoneOnCanvas, evented, canvasOn, docOn, selection,
                 defaultCursor, activeObject, repeated, uiCalls, ret, threw,
                 inputField>>

\* this._calcRectDimensionFromPoint(x, y)
CalcRect ==
  \E p \in GeomPointers :
     Computed("calcRect",
              CalcRectDimensionFromPoint(State, p.x * Unit, p.y * Unit), Point(p.x, p.y))

\* this._getPresetPropertiesForCropSize(presetRatio)
PresetProperties ==
  \E r \in GeomRatios :
     Computed("presetProperties", GetPresetPropertiesForCropSize(State, r), r)

\* setCropzoneRect(presetRatio) with the ratios of the finer set
ApplyPreset ==
  \E r \in GeomRatios : Do("setCropzoneRect", SetCropzoneRectF(State, r), r)

NextGeom ==
  \/ CalcRect
  \/ PresetProperties
  \/ ApplyPreset

SpecGeom == InitGeom /\ [][NextGeom]_vars

----------------------------------------------------------------------------
(* The session lifecycle on its own, over canvases of several sizes and       *)
(* configured default crop sizes: start(), the default rectangle, end()       *)

StartSizes ==
  { [w |-> 40, h |-> 30], [w |-> 30, h |-> 40], [w |-> 50, h |-> 50],
    [w |-> 800, h |-> 600], [w |-> 1, h |-> 1], [w |-> 0, h |-> 0] }

StartCrops ==
  { NULL, [width |-> 20, height |-> 10], [width |-> 900, height |-> 10],
    [width |-> 20, height |-> 700], [width |-> 30, height |-> 30],
    [width |-> 0, height |-> 0] }

StartConfigs == { [w |-> z.w, h |-> z.h, crop |-> c] : z \in StartSizes, c \in StartCrops }

InitStart ==
  /\ \E c \in StartConfigs : Is(InitState(c))
  /\ lastOp = "init"
  /\ repeated = FALSE
  /\ arg = NULL
  /\ inputField = NULL

\* setCropzoneRect() with the ratio omitted
ApplyDefault == Do("setCropzoneRect", SetCropzoneRectF(State, NULL), NULL)

\* getCropzoneRect() during a session
GetRectInSession ==
  /\ cropzone # NULL
  /\ Do("getCropzoneRect", GetCropzoneRectF(State), NULL)

NextStart ==
  \/ Start
  \/ End
  \/ ApplyDefault
  \/ GetRectInSession

SpecStart == InitStart /\ [][NextStart]_vars

----------------------------------------------------------------------------
(* The numeric input widget (class InputField).  Numbers are kept in fixed   *)
(* point with two decimals, NaN is a value of its own, and the content of    *)
(* the input element is a sequence of characters, so that parseInt, Number,  *)
(* the number-to-string conversion and the filter expression are computed    *)
(* on the text as JavaScript computes them.                                  *)

\* longest text the user extends by typing
MaxText == 2

\* model units per 1: hundredths
Scale == 10 * 10

NaN == [nan |-> TRUE, n |-> 0]
Num(n) == [nan |-> FALSE, n |-> n]

\* keyCodes of '@/consts'
ARROW_UP == 38
ARROW_DOWN == 40
DIGIT_0 == 48
DIGIT_9 == 57
NUMPAD_DIGIT_0 == 96
NUMPAD_DIGIT_9 == 105

DigitChars == <<"0", "1", "2", "3", "4", "5", "6", "7", "8", "9">>
IsDigit(c) == \E i \in 1..Len(DigitChars) : DigitChars[i] = c
DigitVal(c) == (CHOOSE i \in 1..Len(DigitChars) : DigitChars[i] = c) - 1

\* the longest prefix of t made of digits ([0-9]*)
RECURSIVE LeadingDigits(_)
LeadingDigits(t) ==
  IF t = <<>> \/ ~IsDigit(Head(t)) THEN <<>>
  ELSE <<Head(t)>> \o LeadingDigits(Tail(t))

\* the longest prefix of t made of characters that are no digits ([^0-9]*)
RECURSIVE LeadingNonDigits(_)
LeadingNonDigits(t) ==
  IF t = <<>> \/ IsDigit(Head(t)) THEN <<>>
  ELSE <<Head(t)>> \o LeadingNonDigits(Tail(t))

\* t without its first k characters
Drop(t, k) == SubSeq(t, k + 1, Len(t))

\* the number written by a sequence of digits
RECURSIVE DigitsValue(_)
DigitsValue(ds) ==
  IF ds = <<>> THEN 0
  ELSE DigitsValue(SubSeq(ds, 1, Len(ds) - 1)) * 10 + DigitVal(ds[Len(ds)])

\* the digits of a natural number
RECURSIVE NatDigits(_)
NatDigits(n) ==
  IF n < 10 THEN <<DigitChars[n + 1]>>
  ELSE NatDigits(n \div 10) \o <<DigitChars[(n % 10) + 1]>>

\* parseInt(text, 10): an optional sign and the digits that follow it
ParseInt(t) ==
  LET neg  == t # <<>> /\ Head(t) = "-"
      body == IF neg THEN Tail(t) ELSE t
      ds   == LeadingDigits(body)
  IN  IF ds = <<>> THEN NaN
      ELSE Num((IF neg THEN -1 ELSE 1) * DigitsValue(ds) * Scale)

\* util.toInteger(value) on a text
toInteger(t) == ParseInt(t)

\* Number(text): 0 for the empty text; the whole text must be a numeral
NumberOf(t) ==
  LET neg  == t # <<>> /\ Head(t) = "-"
      body == IF neg THEN Tail(t) ELSE t
      ip   == LeadingDigits(body)
      rest == Drop(body, Len(ip))
      fd   == IF rest = <<>> THEN <<>> ELSE Tail(rest)
      wellFormed ==
        /\ ip # <<>> \/ fd # <<>>
        /\ rest = <<>> \/ (Head(rest) = "." /\ LeadingDigits(fd) = fd)
      hundredths ==
        IF fd = <<>> THEN 0
        ELSE IF Len(fd) = 1 THEN DigitVal(fd[1]) * 10
        ELSE DigitVal(fd[1]) * 10 + DigitVal(fd[2])
  IN  IF t = <<>> THEN Num(0)
      ELSE IF ~wellFormed THEN NaN
      ELSE Num((IF neg THEN -1 ELSE 1) * (DigitsValue(ip) * Scale + hundredths))

\* String(value), as "inputElement.value = value" stores it
ToString(v) ==
  LET a    == Abs(v.n)
      fp   == a % Scale
      frac == IF fp = 0 THEN <<>>
              ELSE IF fp % 10 = 0 THEN <<".", DigitChars[(fp \div 10) + 1]>>
              ELSE <<".", DigitChars[(fp \div 10) + 1], DigitChars[(fp % 10) + 1]>>
  IN  IF v.nan THEN <<"N", "a", "N">>
      ELSE (IF v.n < 0 THEN <<"-">> ELSE <<>>) \o NatDigits(a \div Scale) \o frac

\* _filterForInputText(inputValue): every match of
\* /(-?)([0-9]*)[^0-9]*([0-9]*)/g is replaced by its three groups
RECURSIVE FilterForInputText(_)
FilterForInputText(t) ==
  IF t = <<>> THEN <<>>
  ELSE LET sign == IF Head(t) = "-" THEN <<"-">> ELSE <<>>
           a    == Drop(t, Len(sign))
           d1   == LeadingDigits(a)
           b    == Drop(a, Len(d1))
           c    == Drop(b, Len(LeadingNonDigits(b)))
           d2   == LeadingDigits(c)
       IN  sign \o d1 \o d2 \o FilterForInputText(Drop(c, Len(d2)))

\* util.clamp on a number that may be NaN: Math.max and Math.min return NaN
ClampNumber(v, minValue, maxValue) ==
  IF v.nan THEN NaN ELSE Num(clamp(v.n, minValue, maxValue))

\* this.fire('change', value, isFinal)
Fire(w, v, isFinal) ==
  [w EXCEPT !.emitted = Append(@, [value |-> v, isFinal |-> isFinal])]

\* set value(value)
SetValueF(w, v) ==
  LET value == IF w.useDecimal THEN v ELSE toInteger(ToString(v))
  IN  [w EXCEPT !.value = value, !.text = ToString(value)]

\* set max(maxValue)
SetMaxF(w, maxValue) == SetValueF([w EXCEPT !.max = maxValue], w.value)

\* set min(minValue)
SetMinF(w, minValue) == SetMaxF([w EXCEPT !.min = minValue], w.max)

\* constructor(inputElement, options): options.value is given; the 'change'
\* fired at the end has no listener yet
NewInputField(options) ==
  LET w == [value      |-> Num(options.value),
            min        |-> options.min,
            max        |-> IF options.max = 0 THEN 100 * Scale ELSE options.max,
            useDecimal |-> options.useDecimal,
            text       |-> <<>>,
            timer      |-> FALSE,
            emitted    |-> <<>>]
  IN  SetValueF(w, Num(options.value))

\* _valueUpDownForKeyEvent(value, keyCode)
ValueUpDownForKeyEvent(w, value, keyCode) ==
  LET step == IF w.useDecimal THEN Scale \div 10 ELSE Scale
  IN  IF value.nan THEN NaN
      ELSE IF keyCode = ARROW_UP THEN Num(value.n + step)
      ELSE IF keyCode = ARROW_DOWN THEN Num(value.n - step)
      ELSE value

\* _changeValueWithInputKeyEvent(event): a comparison with NaN is false
ChangeValueWithInputKeyEvent(w, keyCode) ==
  IF keyCode \notin {ARROW_UP, ARROW_DOWN} THEN w
  ELSE LET value     == ValueUpDownForKeyEvent(w, NumberOf(w.text), keyCode)
           unChanged == ~value.nan /\ (value.n < w.min \/ value.n > w.max)
           clampValue == ClampNumber(value, w.min, w.max)
       IN  IF unChanged THEN w
           ELSE Fire(SetValueF(w, clampValue), clampValue, FALSE)

\* the test of _changeInput that ends in event.preventDefault()
NotADigitKey(keyCode) ==
  \/ keyCode < DIGIT_0
  \/ keyCode > NUMPAD_DIGIT_9
  \/ (keyCode > DIGIT_9 /\ keyCode < NUMPAD_DIGIT_0)

\* _changeInput(event): the timer is cleared, and set again for a digit key
ChangeInput(w, keyCode) == [w EXCEPT !.timer = ~NotADigitKey(keyCode)]

\* _inputSetValue(stringValue)
InputSetValue(w, stringValue) ==
  LET value == ClampNumber(IF w.useDecimal THEN NumberOf(stringValue)
                           ELSE toInteger(stringValue), w.min, w.max)
  IN  Fire(SetValueF(w, value), value, TRUE)

\* _changeValueWithInput(isLast, event): keyCode 0 stands for an event without one
ChangeValueWithInput(w, isLast, keyCode) ==
  IF keyCode \in {ARROW_UP, ARROW_DOWN} THEN w
  ELSE LET stringValue   == FilterForInputText(w.text)
           waitForChange == stringValue = <<>> \/ NumberOf(stringValue).nan
           w1            == [w EXCEPT !.text = stringValue]
       IN  IF waitForChange THEN w1 ELSE InputSetValue(w1, stringValue)

\* the callback of the timer set by _changeInput
UserInputTimerFires(w) == InputSetValue([w EXCEPT !.timer = FALSE], w.text)

\* the character a key of the digit rows writes: with Shift the top row writes a symbol
KeyChar(k) ==
  IF k.keyCode >= NUMPAD_DIGIT_0 THEN DigitChars[k.keyCode - NUMPAD_DIGIT_0 + 1]
  ELSE IF k.shiftKey THEN "!"
  ELSE DigitChars[k.keyCode - DIGIT_0 + 1]

\* the browser's default action of a key press: the character replaces the
\* selection (the whole text) or is written at the end
InsertChar(w, c, select) ==
  [w EXCEPT !.text = IF select THEN <<c>> ELSE Append(@, c)]

\* a keydown event on the input element: both listeners in the order of their
\* registration, then the default action unless prevented
OnKeyDownEvent(w, k, select) ==
  LET w1 == ChangeInput(ChangeValueWithInputKeyEvent(w, k.keyCode), k.keyCode)
  IN  IF NotADigitKey(k.keyCode) THEN w1 ELSE InsertChar(w1, KeyChar(k), select)

(* Inputs of the widget *)

InputOptions ==
  { [min |-> 1 * Scale, max |-> 12 * Scale, value |-> 5 * Scale, useDecimal |-> FALSE],
    [min |-> -3 * Scale, max |-> 3 * Scale, value |-> 0, useDecimal |-> FALSE],
    [min |-> 0, max |-> 1 * Scale, value |-> Scale \div 2, useDecimal |-> TRUE] }

Key(keyCode, shiftKey) == [keyCode |-> keyCode, shiftKey |-> shiftKey]

KeyEvents ==
  { Key(ARROW_UP, FALSE), Key(ARROW_DOWN, FALSE),
    Key(DIGIT_0 + 1, FALSE), Key(DIGIT_0 + 7, FALSE), Key(DIGIT_0 + 1, TRUE),
    Key(NUMPAD_DIGIT_0 + 7, FALSE),
    Key(DIGIT_0 - 2, FALSE), Key(DIGIT_9 + 8, FALSE), Key(NUMPAD_DIGIT_9 + 4, FALSE) }

\* limits and values set by the menu
LimitValues == {2 * Scale, 8 * Scale}
MenuValues == {Num(5 * Scale), Num(20 * Scale)}

(* The state machine of the widget *)

InitInput ==
  /\ \E c \in Configs : Is(InitState(c))
  /\ \E o \in InputOptions : inputField = NewInputField(o)
  /\ lastOp = "init"
  /\ repeated = FALSE
  /\ arg = NULL

\* the widget as an operation finds it
Widget == [inputField EXCEPT !.emitted = <<>>]

InputDo(op, w, a) ==
  /\ inputField' = w
  /\ lastOp' = op
  /\ arg' = a
  /\ UNCHANGED <<canvasWidth, canvasHeight, defaultCrop, cropzone, startX, startY,
                 withShiftKey, zoneOnCanvas, evented, canvasOn, docOn, selection,
                 defaultCursor, activeObject, repeated, applied, uiCalls, ret, threw>>

InputKeyDown ==
  \E k \in KeyEvents, select \in BOOLEAN :
     /\ NotADigitKey(k.keyCode) => ~select
     /\ (~NotADigitKey(k.keyCode) /\ ~select) => Len(inputField.text) < MaxText
     /\ InputDo("keydown", OnKeyDownEvent(Widget, k, select),
                [keyCode |-> k.keyCode, shiftKey |-> k.shiftKey, select |-> select])

InputTimer ==
  /\ inputField.timer
  /\ InputDo("timer", UserInputTimerFires(Widget), NULL)

InputBlur == InputDo("blur", ChangeValueWithInput(Widget, TRUE, 0), NULL)

MenuSetMin == \E m \in LimitValues : InputDo("setMin", SetMinF(Widget, m), Num(m))

MenuSetMax == \E m \in LimitValues : InputDo("setMax", SetMaxF(Widget, m), Num(m))

MenuSetValue == \E v \in MenuValues : InputDo("setValue", SetValueF(Widget, v), v)

NextInput ==
  \/ InputKeyDown
  \/ InputTimer
  \/ InputBlur
  \/ MenuSetMin
  \/ MenuSetMax
  \/ MenuSetValue

SpecInput == InitInput /\ [][NextInput]_vars

----------------------------------------------------------------------------
(* Properties *)

\* the program's own state, without the history variables
progVars == <<canvasWidth, canvasHeight, defaultCrop, cropzone, startX, startY,
              withShiftKey, zoneOnCanvas, evented, canvasOn, docOn, selection,
              defaultCursor, activeObject>>

NoListeners == (\A e \in EventNames : canvasOn[e] = 0) /\ docOn = {}

\* C1 (as claimed): once end() has returned none of the engine's canvas or
\* document listeners is registered, and no listener is ever registered more
\* than once.
C1_ListenersPaired ==
  /\ lastOp = "end" => NoListeners
  /\ \A e \in EventNames : canvasOn[e] <= 1

\* C2: a start() right after a start(), and an end() right after an end(),
\* changes nothing of the program state (zone, canvas objects, listeners,
\* cursor, multi-select, interactivity): the second call is a no-op.
C2_LifecycleIdempotent == [][repeated' => UNCHANGED progVars]_vars

\* C2 witness: a second start() in a row has run, in a session
C2_Witness == repeated /\ lastOp = "start" /\ cropzone # NULL /\ zoneOnCanvas = 1

\* C3 (as claimed): getCropzoneRect() never fails; it returns null when there is
\* no zone or the zone is invalid, and the zone's {left, top, width, height}
\* otherwise.
C3_GetRectNeverFails ==
  lastOp = "getCropzoneRect" =>
    /\ ~threw
    /\ ret = IF cropzone = NULL THEN NULL
             ELSE IF ~IsValid(cropzone) THEN NULL
             ELSE Rect(cropzone.left, cropzone.top, cropzone.width, cropzone.height)

\* the zone holds the settings that lastOp applied last
ZoneHolds(r) ==
  /\ cropzone.left = r.left /\ cropzone.top = r.top
  /\ cropzone.width = r.width /\ cropzone.height = r.height

\* C4 (as claimed): every geometry change made by a pointer-move, by
\* setCropzoneRect or by setCropzonePosition is followed by exactly one updateUI
\* call carrying the settings that were applied.
C4_EveryChangeNotifies ==
  lastOp \in {"mousemove", "setCropzoneRect", "setCropzonePosition"} =>
    uiCalls = applied

\* C4 (amended): every geometry change made by an above-threshold pointer-move
\* or by setCropzoneRect is followed by exactly one updateUI call carrying the
\* settings applied to the zone; setCropzonePosition applies its rectangle
\* without calling updateUI.
C4_DragAndPresetNotify ==
  /\ lastOp \in {"mousemove", "setCropzoneRect"} =>
       /\ uiCalls = applied
       /\ applied # <<>> => ZoneHolds(applied[Len(applied)])
  /\ lastOp = "setCropzonePosition" => uiCalls = <<>>

\* C4 witness: an above-threshold pointer-move has set the zone and notified once
C4_Witness ==
  /\ lastOp = "mousemove" /\ Len(applied) = 1 /\ Len(uiCalls) = 1
  /\ uiCalls[1].width > 0 /\ ZoneHolds(uiCalls[1])

\* C5 (as claimed): while a session is active and no gesture is in progress the
\* zone's rectangle has width >= 0, height >= 0 and lies within the canvas on
\* the right and at the bottom.
C5_CommittedRectInCanvas ==
  (cropzone # NULL /\ canvasOn["mouse:move"] = 0 /\ canvasOn["mouse:up"] = 0) =>
    /\ cropzone.width >= 0
    /\ cropzone.height >= 0
    /\ cropzone.left + cropzone.width <= canvasWidth * Unit
    /\ cropzone.top + cropzone.height <= canvasHeight * Unit

\* C8 (as claimed): the aspect-lock flag is false after every end().
C8_ShiftClearedByEnd == lastOp = "end" => ~withShiftKey

PointInCanvas(p) ==
  /\ 0 <= p.x /\ p.x <= canvasWidth * Unit
  /\ 0 <= p.y /\ p.y <= canvasHeight * Unit

\* C6 (as claimed): for an anchor and a pointer inside the canvas, aspect lock
\* on or off, the rectangle of _calcRectDimensionFromPoint has left >= 0,
\* top >= 0, left + width <= canvas width and top + height <= canvas height.
C6_DragRectContained ==
  (lastOp = "calcRect" /\ PointInCanvas(arg)) =>
    LET r == applied[1]
    IN  /\ r.left >= 0
        /\ r.top >= 0
        /\ r.left + r.width <= canvasWidth * Unit
        /\ r.top + r.height <= canvasHeight * Unit

\* C7: with the shift flag set, every rectangle of _calcRectDimensionFromPoint
\* has width = height, for pointers inside and outside the canvas.
C7_ShiftGivesSquare ==
  (lastOp = "calcRect" /\ withShiftKey) => applied[1].width = applied[1].height

\* C7 witness: a square computed for a pointer outside the canvas whose
\* free-form rectangle is not square
C7_Witness ==
  /\ lastOp = "calcRect" /\ withShiftKey /\ ~PointInCanvas(arg)
  /\ applied[1].width > 0
  /\ LET free == CalcRectDimensionFromPoint([State EXCEPT !.withShiftKey = FALSE],
                                            arg.x, arg.y)
     IN  free.width # free.height /\ applied[1].width = Max(free.width, free.height)

\* C9: the rectangle of _getPresetPropertiesForCropSize(ratio) has
\* width / height = ratio up to the rounding of width and height to a hundredth
\* of a pixel (one model unit is the largest rounding error of either), and
\* carries presetRatio = ratio.
C9_PresetKeepsRatio ==
  lastOp = "presetProperties" =>
    LET r == applied[1]
    IN  /\ r.presetRatio = arg
        /\ Abs(r.width * arg.d - r.height * arg.n) <= arg.n + arg.d

\* C9 witness: a preset rectangle whose height was rounded
C9_Witness ==
  /\ lastOp = "presetProperties" /\ arg = [n |-> 16, d |-> 9]
  /\ canvasWidth = 30 /\ canvasHeight = 40
  /\ applied[1].width = 30 * Unit
  /\ applied[1].width * arg.d # applied[1].height * arg.n

\* C10: after setCropzoneRect(ratio) the zone fits the canvas, is centred, and
\* spans the canvas on at least one axis; ratio 1 on 800 x 600 gives
\* width = height = 600, left = 100, top = 0.
C10_PresetFitsCentered ==
  (lastOp = "setCropzoneRect" /\ arg # NULL /\ ~threw) =>
    /\ cropzone.width <= canvasWidth * Unit
    /\ cropzone.height <= canvasHeight * Unit
    /\ 2 * cropzone.left = canvasWidth * Unit - cropzone.width
    /\ 2 * cropzone.top = canvasHeight * Unit - cropzone.height
    /\ cropzone.width = canvasWidth * Unit \/ cropzone.height = canvasHeight * Unit
    /\ (canvasWidth = 800 /\ canvasHeight = 600 /\ arg = [n |-> 1, d |-> 1]) =>
         /\ cropzone.width = 600 * Unit /\ cropzone.height = 600 * Unit
         /\ cropzone.left = 100 * Unit /\ cropzone.top = 0

\* C10 witness: the square preset applied on the 800 x 600 canvas
C10_Witness ==
  /\ lastOp = "setCropzoneRect" /\ arg = [n |-> 1, d |-> 1]
  /\ canvasWidth = 800 /\ canvasHeight = 600
  /\ cropzone.width = 600 * Unit /\ cropzone.left = 100 * Unit

\* the preferred size: the configured one, the canvas size when none is configured
Preferred ==
  IF defaultCrop = NULL THEN [width |-> canvasWidth, height |-> canvasHeight]
  ELSE defaultCrop

PreferredFits == Preferred.width <= canvasWidth /\ Preferred.height <= canvasHeight

ZoneCentered ==
  /\ 2 * cropzone.left = canvasWidth * Unit - cropzone.width
  /\ 2 * cropzone.top = canvasHeight * Unit - cropzone.height

\* what getCropzoneRect() returns in the current state
RectNow == GetCropzoneRectF(State)

RectNowIsZoneOrNull ==
  /\ ~RectNow.threw
  /\ RectNow.ret = IF cropzone.width = 0 \/ cropzone.height = 0 THEN NULL
                   ELSE Rect(cropzone.left, cropzone.top, cropzone.width, cropzone.height)

AfterStartOrDefault ==
  \/ lastOp = "start"
  \/ lastOp = "setCropzoneRect" /\ arg = NULL /\ ~threw

\* C11 (as claimed): right after start(), and after setCropzoneRect() without a
\* ratio, the zone is centred, has the preferred size when that fits the canvas
\* on both axes and otherwise exactly 75% of the canvas width by 75% of the
\* canvas height, and getCropzoneRect() returns it, or null when its area is 0.
C11_DefaultRectExact75 ==
  AfterStartOrDefault =>
    /\ ZoneCentered
    /\ RectNowIsZoneOrNull
    /\ IF PreferredFits
       THEN /\ cropzone.width = Preferred.width * Unit
            /\ cropzone.height = Preferred.height * Unit
       ELSE /\ 4 * cropzone.width = 3 * canvasWidth * Unit
            /\ 4 * cropzone.height = 3 * canvasHeight * Unit

\* C11 (amended): as C11, the fallback size being 75% of the canvas width and of
\* the canvas height each truncated to a whole number of pixels.
C11_DefaultRectTruncated75 ==
  AfterStartOrDefault =>
    /\ ZoneCentered
    /\ RectNowIsZoneOrNull
    /\ IF PreferredFits
       THEN /\ cropzone.width = Preferred.width * Unit
            /\ cropzone.height = Preferred.height * Unit
       ELSE /\ cropzone.width = ((3 * canvasWidth) \div 4) * Unit
            /\ cropzone.height = ((3 * canvasHeight) \div 4) * Unit

\* C11 witness: a session started on a 30 x 40 canvas whose configured size
\* exceeds it on one axis only: the zone is 22 x 30, centred
C11_Witness ==
  /\ lastOp = "start" /\ canvasWidth = 30 /\ canvasHeight = 40
  /\ defaultCrop = [width |-> 900, height |-> 10]
  /\ cropzone.width = 22 * Unit /\ cropzone.height = 30 * Unit
  /\ cropzone.left = 4 * Unit /\ RectNow.ret.top = 5 * Unit

\* C12 (as claimed): setCropzonePosition(posInfo) on a canvas W x H leaves the
\* zone with left = max(left, 0), top = max(top, 0), width = min(width, W - left)
\* and height = min(height, H - top), so that top + height <= H.
C12_HeightClampedAgainstTop ==
  (lastOp = "setCropzonePosition" /\ ~threw /\ arg # NULL) =>
    /\ cropzone.left = Max(arg.left, 0) * Unit
    /\ cropzone.top = Max(arg.top, 0) * Unit
    /\ cropzone.width = Min(arg.width, canvasWidth - arg.left) * Unit
    /\ cropzone.height = Min(arg.height, canvasHeight - arg.top) * Unit
    /\ cropzone.top + cropzone.height <= canvasHeight * Unit

\* C13 (as claimed): the zone's presetRatio equals the ratio after
\* setCropzoneRect(ratio), and is null after every above-threshold pointer-move
\* that sets the zone's rectangle.
C13_PresetRatioLifecycle ==
  /\ (lastOp = "setCropzoneRect" /\ ~threw /\ arg # NULL) => cropzone.presetRatio = arg
  /\ (lastOp = "mousemove" /\ applied # <<>>) => cropzone.presetRatio = NULL

\* C14: getCroppedImageData(rect) with a falsy rect returns null and changes
\* nothing; with a rectangle it returns a result taken while the zone is not on
\* the canvas, and on return the zone is on the canvas exactly if it was before
\* the call and the zone's rectangle, ratio and visibility are what they were.
C14_CroppedImageFrame ==
  [][lastOp' = "getCroppedImageData" =>
       /\ ~threw'
       /\ IF arg' = NULL
          THEN ret' = NULL /\ UNCHANGED progVars
          ELSE /\ ret'.rect = arg'
               /\ ~ret'.zoneInImage
               /\ (zoneOnCanvas' > 0) = (zoneOnCanvas > 0)
               /\ cropzone' = cropzone]_vars

\* C14 witness: an image has been taken of the full canvas during a session,
\* without the zone in it, and the zone is back on the canvas
C14_Witness ==
  /\ lastOp = "getCroppedImageData" /\ arg # NULL
  /\ ret = [rect |-> arg, zoneInImage |-> FALSE]
  /\ cropzone # NULL /\ zoneOnCanvas > 0

\* C15: changeVisibility(v) sets the zone's visible flag to v and leaves the
\* zone's left, top, width, height and presetRatio, the zone's presence on the
\* canvas, the listeners and every other field of the session as they were;
\* with no zone it changes nothing and does not fail.
C15_VisibilityFrame ==
  [][lastOp' = "changeVisibility" =>
       /\ ~threw'
       /\ cropzone' = IF cropzone = NULL THEN NULL
                      ELSE [cropzone EXCEPT !.visible = arg'.visible]
       /\ UNCHANGED <<canvasWidth, canvasHeight, defaultCrop, startX, startY,
                      withShiftKey, zoneOnCanvas, evented, canvasOn, docOn,
                      selection, defaultCursor, activeObject>>]_vars

\* C15 witness: the zone of a session, on the canvas, has been hidden
C15_Witness ==
  /\ lastOp = "changeVisibility" /\ cropzone # NULL /\ zoneOnCanvas > 0
  /\ arg.visible = FALSE /\ cropzone.visible = FALSE /\ cropzone.width > 0

\* the number an arrow key makes of the text of the input element
Stepped(w, keyCode) == ValueUpDownForKeyEvent(w, NumberOf(w.text), keyCode)

\* C16 (as claimed): for a widget with min <= max, every change notification
\* emitted by a key press, by the typing timer or by a blur carries a number v
\* with min <= v <= max that is also the stored value; an arrow key whose step
\* leaves [min, max] emits nothing and leaves the stored value unchanged.
C16_EmittedValueClamped ==
  [][(lastOp' \in {"keydown", "timer", "blur"} /\ inputField.min <= inputField.max) =>
       /\ \A i \in 1..Len(inputField'.emitted) :
            LET v == inputField'.emitted[i].value
            IN  /\ ~v.nan
                /\ inputField'.min <= v.n /\ v.n <= inputField'.max
                /\ inputField'.value = v
       /\ ( /\ lastOp' = "keydown"
            /\ arg'.keyCode \in {ARROW_UP, ARROW_DOWN}
            /\ ~Stepped(inputField, arg'.keyCode).nan
            /\ \/ Stepped(inputField, arg'.keyCode).n < inputField.min
               \/ Stepped(inputField, arg'.keyCode).n > inputField.max )
          => /\ inputField'.emitted = <<>>
             /\ inputField'.value = inputField.value]_vars

\* the pointer of a calcRect step, moved into the canvas
ClampedPointer ==
  [x |-> clamp(arg.x, 0, canvasWidth * Unit), y |-> clamp(arg.y, 0, canvasHeight * Unit)]

\* C17: with the shift flag set, the rectangle of _calcRectDimensionFromPoint is
\* a square whose side is the larger of the two extents from the anchor to the
\* pointer moved into the canvas, and the anchor is a corner of it: on each axis
\* the origin is the anchor when the pointer is beyond the anchor, and the
\* anchor minus the side when the pointer is at or before the anchor.
C17_SquareAnchored ==
  (lastOp = "calcRect" /\ withShiftKey) =>
    LET r    == applied[1]
        side == Max(Abs(ClampedPointer.x - startX), Abs(ClampedPointer.y - startY))
    IN  /\ r.width = side
        /\ r.height = side
        /\ r.left = IF arg.x > startX THEN startX ELSE startX - side
        /\ r.top = IF arg.y > startY THEN startY ELSE startY - side

\* C17 witness: anchor (100,100) and pointer (300,150) on the 800 x 600 canvas
\* give the square of side 200 at (100,100)
C17_Witness ==
  /\ lastOp = "calcRect" /\ withShiftKey /\ canvasWidth = 800
  /\ startX = 100 * Unit /\ startY = 100 * Unit
  /\ arg = Point(300, 150)
  /\ applied[1] = Rect(100 * Unit, 100 * Unit, 200 * Unit, 200 * Unit)

\* C18: with the shift flag clear, the rectangle of _calcRectDimensionFromPoint
\* is the bounding box of the anchor and the pointer moved into the canvas:
\* left and top are the smaller coordinates, width and height the distances.
C18_FreeFormBoundingBox ==
  (lastOp = "calcRect" /\ ~withShiftKey) =>
    applied[1] = Rect(Min(startX, ClampedPointer.x), Min(startY, ClampedPointer.y),
                      Abs(ClampedPointer.x - startX), Abs(ClampedPointer.y - startY))

\* C18 witness: anchor (100,100) and pointer (50,50) give {50, 50, 50, 50}
C18_Witness ==
  /\ lastOp = "calcRect" /\ ~withShiftKey
  /\ startX = 100 * Unit /\ startY = 100 * Unit
  /\ arg = Point(50, 50)
  /\ applied[1] = Rect(50 * Unit, 50 * Unit, 50 * Unit, 50 * Unit)

\* Manhattan distance, in pixels times Unit, from the recorded anchor to point p
FromAnchor(p) == Abs(p.x - startX) + Abs(p.y - startY)

\* C19: a pointer-down, a pointer-up and a pointer-move at Manhattan distance
\* at most 10 pixels from the anchor leave the zone's rectangle and presetRatio
\* as they were and invoke updateUI not at all; so a gesture without a move
\* farther than 10 pixels changes nothing, and a move sets the rectangle only
\* if |x - startX| + |y - startY| > 10.
C19_ClickThreshold ==
  [][/\ lastOp' \in {"mousedown", "mouseup"} =>
          cropzone' = cropzone /\ uiCalls' = <<>>
     /\ (lastOp' = "mousemove" /\ FromAnchor(arg') <= MOUSE_MOVE_THRESHOLD * Unit) =>
          cropzone' = cropzone /\ uiCalls' = <<>> /\ applied' = <<>>]_vars

\* C19 witness: during a session, a pointer-move at exactly 10 pixels from the
\* anchor has set nothing
C19_Witness ==
  /\ lastOp = "mousemove" /\ cropzone # NULL
  /\ FromAnchor(arg) = MOUSE_MOVE_THRESHOLD * Unit
  /\ applied = <<>> /\ uiCalls = <<>>

\* a step that adds a registration of the move or the up listener
RegistersMoveOrUp ==
  \/ canvasOn'["mouse:move"] > canvasOn["mouse:move"]
  \/ canvasOn'["mouse:up"] > canvasOn["mouse:up"]

\* C20: the move and up listeners are registered only by a pointer-down on
\* empty space; a pointer-down on a shape (the zone) records no anchor and
\* registers nothing; and after every pointer-up of a session, however many
\* pointer-downs came before it, no move or up listener is registered, the zone
\* is the active object, and the zone is as the last move left it.
C20_GestureReturnsToIdle ==
  [][/\ RegistersMoveOrUp => (lastOp' = "mousedown" /\ arg'.target = NULL)
     /\ (lastOp' = "mousedown" /\ arg'.target # NULL) =>
          UNCHANGED <<startX, startY, canvasOn>>
     /\ (lastOp' = "mouseup" /\ cropzone # NULL) =>
          /\ canvasOn'["mouse:move"] = 0
          /\ canvasOn'["mouse:up"] = 0
          /\ activeObject' = ZONE
          /\ cropzone' = cropzone]_vars

\* C20 witness: a pointer-up has ended a drag from the centre of the canvas to
\* its lower left corner: the zone is the dragged rectangle and is active, and
\* no move or up listener is left
C20_Witness ==
  /\ lastOp = "mouseup" /\ cropzone # NULL /\ activeObject = ZONE
  /\ canvasOn["mouse:move"] = 0 /\ canvasOn["mouse:up"] = 0
  /\ ZoneHolds(Rect(0, (canvasHeight \div 2) * Unit,
                    (canvasWidth \div 2) * Unit, (canvasHeight \div 2) * Unit))

\* C21: while a session is active no object of the canvas is interactive; after
\* every end() of a session every object is interactive, the zone is not on the
\* canvas, the zone reference is null, the cursor is the default one and
\* multi-select is enabled; and a start() that follows creates the zone anew,
\* at its default rectangle, on the canvas and selected.
C21_InteractivityToggled ==
  [][/\ cropzone' # NULL => \A o \in Objects : ~evented'[o]
     /\ (lastOp' = "end" /\ cropzone # NULL) =>
          /\ \A o \in Objects : evented'[o]
          /\ zoneOnCanvas' = 0
          /\ cropzone' = NULL
          /\ defaultCursor' = "default"
          /\ selection'
     /\ (lastOp = "end" /\ lastOp' = "start") =>
          /\ cropzone' = NewCropzone(State)
          /\ zoneOnCanvas' = 1
          /\ activeObject' = ZONE
          /\ ~selection'
          /\ defaultCursor' = "crosshair"]_vars

\* C21 witness: a session that was dragged in has been ended
C21_Witness ==
  /\ lastOp = "end" /\ ~repeated
  /\ \A o \in Objects : evented[o]
  /\ cropzone = NULL /\ zoneOnCanvas = 0
  /\ canvasOn["mouse:move"] > 0

\* C22: after every operation and event handler the canvas holds the zone
\* exactly once if a zone reference exists, and not at all otherwise.
C22_ZoneOnCanvasIffSession ==
  zoneOnCanvas = IF cropzone # NULL THEN 1 ELSE 0

\* C22 witness: an above-threshold pointer-move has removed and re-added the zone
C22_Witness ==
  /\ lastOp = "mousemove" /\ cropzone # NULL
  /\ Len(applied) > 0 /\ zoneOnCanvas = 1

\* C23 (as claimed): while a session is active canvas.selection is false.
C23_SelectionOffInSession == cropzone # NULL => ~selection

=============================================================================
